---- MODULE Spec2Model ----
(***************************************************************************)
(* BIP32 key-tree nodes of sorzun (obsidian/deterministic.py) and the      *)
(* base58check codec they serialize with (obsidian/base58.py); the         *)
(* cashaddr codec (sorzun/cashaddr.py, obsidian/util.py), the address      *)
(* converter (obsidian/cashaddrconv.py), BIP39 mnemonics                   *)
(* (sorzun/mnemonic.py) and the caches of the public point of a private    *)
(* key.                                                                    *)
(*                                                                         *)
(* Values are modelled at reduced width: every multi-byte field keeps its  *)
(* position and its big-endian encoding but is shorter than in the source  *)
(* (the *Len definitions give the modelled length of each field), because  *)
(* the model checker's integers are 32 bit.  Bytes are 0..255 and strings  *)
(* are sequences of one-character strings.  The hash functions are small   *)
(* deterministic mixing functions and the curve is a cyclic group of prime *)
(* order N whose points are written by their discrete logarithm (0 is the  *)
(* point at infinity).                                                     *)
(***************************************************************************)
EXTENDS Integers, Sequences, FiniteSets, TLC

VARIABLES node, last, text, src, nops, io, cache, thr, mults, objs, res

\* a session on one node: the node held, the last call, the string kept
nodevars == <<node, last, text, src, nops>>
\* the last call of a codec
codecvars == <<io>>
\* the pubkey caches and the threads reading them
cachevars == <<cache, thr, mults, objs, res>>

vars == <<node, last, text, src, nops, io, cache, thr, mults, objs, res>>

(***************************************************************************)
(* Bounds of the model.                                                    *)
(***************************************************************************)
\* operations performed in one behaviour
MaxOps == 3
\* length of the byte strings given to the codecs
MaxBytes == 3
\* computations of G * k counted for one object
MaxMults == 2
\* seeds <<0>> .. <<MaxSeed>> are offered to from_entropy
MaxSeed == 11
\* private scalars 0 .. MaxKey appear in the strings offered to node_from_str
MaxKey == 3

(***************************************************************************)
(* Field widths (bytes), reduced from the source's.                        *)
(***************************************************************************)
\* 32-byte private key / x coordinate
KeyLen == 1
\* 32-byte chaincode
CcLen == 1
\* 4-byte parent fingerprint
FpLen == 1
\* 4-byte child index
IdxLen == 2
\* 4-byte base58check checksum
CsLen == 1
\* 20-byte HASH160
IdLen == 2
\* 4-byte version prefix (kept at full length)
VLen == 4

\* first hardened index: the top bit of an IdxLen-byte index (0x80000000)
HARDENED == 2 ^ (8 * IdxLen - 1)
\* indices that no longer fit to_bytes(4, 'big') start here (2^32)
IndexLimit == 2 ^ (8 * IdxLen)
\* length of a well-formed serialized node (78)
PayloadLen == VLen + 1 + FpLen + IdxLen + CcLen + KeyLen + 1

(***************************************************************************)
(* Outcomes: a value or the name of the exception raised.                  *)
(***************************************************************************)
Ok(v) == [err |-> "", val |-> v]
Raise(e) == [err |-> e, val |-> <<>>]

Min(a, b) == IF a < b THEN a ELSE b
Max(a, b) == IF a > b THEN a ELSE b

(***************************************************************************)
(* Python bytes and int helpers.                                           *)
(***************************************************************************)
Zeros(n) == [j \in 1..n |-> 0]

\* int.to_bytes(n, 'big') for 0 <= v < 256^n
RECURSIVE IntToBytes(_, _)
IntToBytes(v, n) ==
  IF n = 0 THEN <<>> ELSE Append(IntToBytes(v \div 256, n - 1), v % 256)

\* to_bytes raises OverflowError when the value does not fit (or is negative)
FitsBytes(v, n) == v >= 0 /\ v < 256 ^ n

\* int.from_bytes(b, 'big')
RECURSIVE BytesToInt(_)
BytesToInt(b) ==
  IF b = <<>> THEN 0
  ELSE BytesToInt(SubSeq(b, 1, Len(b) - 1)) * 256 + b[Len(b)]

\* Python slice b[lo:hi] with negative positions counted from the end
SliceIdx(p, n) == IF p < 0 THEN Max(n + p, 0) ELSE Min(p, n)
Slice(b, lo, hi) == SubSeq(b, SliceIdx(lo, Len(b)) + 1, SliceIdx(hi, Len(b)))
\* b[lo:] and b[:hi]
SliceFrom(b, lo) == SubSeq(b, SliceIdx(lo, Len(b)) + 1, Len(b))
SliceTo(b, hi) == SubSeq(b, 1, SliceIdx(hi, Len(b)))

\* number of leading elements of s equal to c (len(s) - len(s.lstrip(c)))
RECURSIVE LeadingCount(_, _)
LeadingCount(s, c) ==
  IF s # <<>> /\ Head(s) = c THEN 1 + LeadingCount(Tail(s), c) ELSE 0

\* s.rstrip(c)
RECURSIVE RStrip(_, _)
RStrip(s, c) ==
  IF s # <<>> /\ s[Len(s)] = c THEN RStrip(SubSeq(s, 1, Len(s) - 1), c) ELSE s

RECURSIVE Reverse(_)
Reverse(s) == IF s = <<>> THEN <<>> ELSE Append(Reverse(Tail(s)), Head(s))

(***************************************************************************)
(* Hash functions (hashlib, hmac): deterministic mixing functions with the *)
(* digest cut to the modelled width.                                       *)
(***************************************************************************)
RECURSIVE Absorb(_, _)
Absorb(h, msg) ==
  IF msg = <<>> THEN h
  ELSE Absorb((h * 131 + Head(msg) + 1) % 65521, Tail(msg))

Digest(h, n) == [j \in 1..n |-> (((h + 977 * j) * 2749) \div 16) % 256]

\* sha256(sha256(b).digest()).digest()[:4]
Sha256d4(b) == Digest(Absorb(Absorb(17, b), <<Len(b)>>), CsLen)

\* hashlib sha256 then ripemd160
hash160(msg) == Digest(Absorb(Absorb(29, msg), <<7>>), IdLen)

\* hmac.new(key, msg, 'sha512').digest()
HmacSha512(key, msg) == Digest(Absorb(Absorb(Absorb(43, key), <<255>>), msg), KeyLen + CcLen)

(***************************************************************************)
(* ecc: the curve group.  Points are written by their discrete logarithm   *)
(* to the base G, so G * k is k mod N and the point at infinity is 0.      *)
(***************************************************************************)
\* order of the group
N == 61
\* generator
G == 1
INFINITY == 0

\* Point.__mul__: P * k
PointMul(P, k) == (P * k) % N
\* Point.__add__
PointAdd(P, Q) == (P + Q) % N

\* bytes(Point): SEC1 compressed form, prefix 02/03 and the x coordinate;
\* a point and its negative share x.  The point at infinity has none.
PointBytes(P) ==
  IF P = INFINITY THEN Raise("EccError")
  ELSE Ok(<<IF 2 * P < N THEN 2 ELSE 3>> \o IntToBytes(Min(P, N - P), KeyLen))

\* Point.from_bytes: fails for everything that is not the compressed form
\* of a point of the curve
PointFromBytes(b) ==
  IF Len(b) # KeyLen + 1 \/ b[1] \notin {2, 3} THEN Raise("EccError")
  ELSE LET x == BytesToInt(SliceFrom(b, 1)) IN
       IF x < 1 \/ 2 * x > N THEN Raise("EccError")
       ELSE Ok(IF b[1] = 2 THEN x ELSE N - x)

(***************************************************************************)
(* base58.py                                                               *)
(***************************************************************************)
ALPHABET ==
  << "1", "2", "3", "4", "5", "6", "7", "8", "9", "A", "B", "C", "D", "E",
     "F", "G", "H", "J", "K", "L", "M", "N", "P", "Q", "R", "S", "T", "U",
     "V", "W", "X", "Y", "Z", "a", "b", "c", "d", "e", "f", "g", "h", "i",
     "j", "k", "m", "n", "o", "p", "q", "r", "s", "t", "u", "v", "w", "x",
     "y", "z" >>

BASE == Len(ALPHABET)

InAlphabet(c) == \E j \in 1..BASE : ALPHABET[j] = c
\* ALPHABET.index(char)
AlphabetIndex(c) == (CHOOSE j \in 1..BASE : ALPHABET[j] = c) - 1

\* Integers of any size are big-endian byte strings without leading zeros.
StripZeros(b) == SliceFrom(b, LeadingCount(b, 0))

\* divmod(i, 58) by long division: [q |-> quotient, r |-> remainder]
RECURSIVE DivMod(_, _, _)
DivMod(b, r, q) ==
  IF b = <<>> THEN [q |-> StripZeros(q), r |-> r]
  ELSE LET cur == r * 256 + Head(b) IN
       DivMod(Tail(b), cur % BASE, Append(q, cur \div BASE))

\* i * 58 + d
RECURSIVE MulAdd(_, _)
MulAdd(b, carry) ==
  IF b = <<>> THEN (IF carry = 0 THEN <<>> ELSE <<carry>>)
  ELSE LET cur == b[Len(b)] * BASE + carry IN
       Append(MulAdd(SubSeq(b, 1, Len(b) - 1), cur \div 256), cur % 256)

\* the loop "while i: i, idx = divmod(i, 58); string += ALPHABET[idx]"
RECURSIVE EncDigits(_)
EncDigits(i) ==
  IF i = <<>> THEN <<>>
  ELSE LET d == DivMod(i, 0, <<>>) IN <<ALPHABET[d.r + 1]>> \o EncDigits(d.q)

\* b58enc without "string += ALPHABET[0] * leading_nulls"
Mut_b58enc(b, check) ==
  LET bb == IF check THEN b \o Sha256d4(b) ELSE b
      i == StripZeros(bb)
      string == EncDigits(i)
  IN Reverse(string)

b58enc(b, check) ==
  LET bb == IF check THEN b \o Sha256d4(b) ELSE b
      i == StripZeros(bb)
      leading_nulls == LeadingCount(bb, 0)
      string == EncDigits(i) \o [j \in 1..leading_nulls |-> ALPHABET[1]]
  IN Reverse(string)

\* the loop "for char in s.rstrip('\n'): i = i * 58 + ALPHABET.index(char)"
RECURSIVE DecDigits(_, _)
DecDigits(s, i) ==
  IF s = <<>> THEN i ELSE DecDigits(Tail(s), MulAdd(i, AlphabetIndex(Head(s))))

\* b58dec cutting the checksum off without comparing it
Mut_b58dec(s, check) ==
  LET stripped == RStrip(s, "\n") IN
  IF \E j \in 1..Len(stripped) : ~InAlphabet(stripped[j]) THEN Raise("ValueError")
  ELSE
    LET i == DecDigits(stripped, <<>>)
        leading_ones == LeadingCount(s, ALPHABET[1])
        pl == Zeros(leading_ones) \o i
    IN IF ~check THEN Ok(pl) ELSE Ok(SliceTo(pl, 0 - CsLen))

b58dec(s, check) ==
  LET stripped == RStrip(s, "\n") IN
  IF \E j \in 1..Len(stripped) : ~InAlphabet(stripped[j]) THEN Raise("ValueError")
  ELSE
    LET i == DecDigits(stripped, <<>>)
        leading_ones == LeadingCount(s, ALPHABET[1])
        pl == Zeros(leading_ones) \o i
    IN IF ~check THEN Ok(pl)
       ELSE LET body == SliceTo(pl, 0 - CsLen)
                cs == SliceFrom(pl, 0 - CsLen)
            IN IF Sha256d4(body) # cs THEN Raise("AssertionError: Checksum Failed")
               ELSE Ok(body)

(***************************************************************************)
(* deterministic.py: keys and nodes.  A node is the 5-tuple of its class:  *)
(* keydata is the private scalar of a PrivBIP32Node and the curve point of *)
(* a PubBIP32Node.                                                         *)
(***************************************************************************)
\* PubBIP32Node.vbytes and PrivBIP32Node.vbytes
PubVbytes == <<4, 136, 178, 30>>
PrivVbytes == <<4, 136, 173, 228>>

\* PubBIP32Node.__new__ (also the constructor of PrivBIP32Node)
NewNode(cls, kd, cc, depth, parent_fingerprint, index) ==
  [cls |-> cls, keydata |-> kd, chaincode |-> cc, depth |-> depth,
   parent_fingerprint |-> parent_fingerprint, index |-> index]

\* the absence of a node
NoNode == NewNode("None", 0, <<>>, 0, <<>>, 0)

IsPriv(n) == n.cls = "PrivBIP32Node"
IsPub(n) == n.cls = "PubBIP32Node"

\* XPubKey.pubkey / XPrivKey.pubkey (G * self.keydata): the curve point
pubkey(self) == IF IsPriv(self) THEN PointMul(G, self.keydata) ELSE self.keydata

\* XPubKey.id hashing the private key bytes of a private key
Mut_id(self) ==
  LET pb == IF IsPriv(self)
            THEN (IF FitsBytes(self.keydata, KeyLen)
                  THEN Ok(<<0>> \o IntToBytes(self.keydata, KeyLen))
                  ELSE Raise("OverflowError"))
            ELSE PointBytes(pubkey(self)) IN
  IF pb.err # "" THEN pb ELSE Ok(hash160(pb.val))

\* XPubKey.id: hash160(bytes(self.pubkey))
id(self) ==
  LET pb == PointBytes(pubkey(self)) IN
  IF pb.err # "" THEN pb ELSE Ok(hash160(pb.val))

\* XPrivKey.__bytes__: b'\0' + keydata.to_bytes(32, 'big')
XPrivKey_bytes(self) ==
  IF ~FitsBytes(self.keydata, KeyLen) THEN Raise("OverflowError")
  ELSE Ok(<<0>> \o IntToBytes(self.keydata, KeyLen))

\* XPubKey.__bytes__: bytes(self.pubkey)
XPubKey_bytes(self) == PointBytes(pubkey(self))

\* XPubKey.ckd with the hardened test off by one (i > 0x80000000)
Mut_XPubKey_I(self, i) ==
  IF i > HARDENED THEN Raise("ProtocolError")
  ELSE
    LET pb == PointBytes(pubkey(self)) IN
    IF pb.err # "" THEN pb
    ELSE IF ~FitsBytes(i, IdxLen) THEN Raise("OverflowError")
    ELSE LET pl == pb.val \o IntToBytes(i, IdxLen) IN
         Ok(HmacSha512(self.chaincode, pl))

\* XPubKey.ckd up to the HMAC: I, or the exception raised before it
XPubKey_I(self, i) ==
  IF ~(i < HARDENED) THEN Raise("ProtocolError")
  ELSE
    LET pb == PointBytes(pubkey(self)) IN
    IF pb.err # "" THEN pb
    ELSE IF ~FitsBytes(i, IdxLen) THEN Raise("OverflowError")
    ELSE LET pl == pb.val \o IntToBytes(i, IdxLen) IN
         Ok(HmacSha512(self.chaincode, pl))

\* IL, IR = I[:32], I[-32:]
IL(I) == SliceTo(I, KeyLen)
IR(I) == SliceFrom(I, 0 - CcLen)

\* XPubKey.ckd: the child key and chaincode of a public key
XPubKey_ckd(self, i) ==
  LET I == XPubKey_I(self, i) IN
  IF I.err # "" THEN I
  ELSE LET k == BytesToInt(IL(I.val)) IN
       Ok([keydata |-> PointAdd(PointMul(G, k), self.keydata), chaincode |-> IR(I.val)])

\* XPrivKey.ckd hashing the private key bytes for every index
Mut_XPrivKey_I(self, i) ==
  LET plbe == XPrivKey_bytes(self) IN
  IF plbe.err # "" THEN plbe
  ELSE IF ~FitsBytes(i, IdxLen) THEN Raise("OverflowError")
  ELSE LET ibytes == IntToBytes(i, IdxLen) IN
       Ok(HmacSha512(self.chaincode, plbe.val \o ibytes))

\* XPrivKey.ckd with the hardened test off by one (i > 0x80000000)
Mut_XPrivKey_I_Threshold(self, i) ==
  LET plbe == IF i > HARDENED THEN XPrivKey_bytes(self)
              ELSE PointBytes(pubkey(self))
  IN
  IF plbe.err # "" THEN plbe
  ELSE IF ~FitsBytes(i, IdxLen) THEN Raise("OverflowError")
  ELSE LET ibytes == IntToBytes(i, IdxLen) IN
       Ok(HmacSha512(self.chaincode, plbe.val \o ibytes))

\* XPrivKey.ckd up to the HMAC: I, or the exception raised before it
XPrivKey_I(self, i) ==
  LET plbe == IF i >= HARDENED THEN XPrivKey_bytes(self)
              ELSE PointBytes(pubkey(self))
  IN
  IF plbe.err # "" THEN plbe
  ELSE IF ~FitsBytes(i, IdxLen) THEN Raise("OverflowError")
  ELSE LET ibytes == IntToBytes(i, IdxLen) IN
       Ok(HmacSha512(self.chaincode, plbe.val \o ibytes))

\* XPrivKey.ckd: the child key and chaincode of a private key
XPrivKey_ckd(self, i) ==
  LET I == XPrivKey_I(self, i) IN
  IF I.err # "" THEN I
  ELSE LET k == (BytesToInt(IL(I.val)) + self.keydata) % N IN
       Ok([keydata |-> k, chaincode |-> IR(I.val)])

\* PubBIP32Node.ckd building the child as a PrivBIP32Node whatever self is
Mut_PubBIP32Node_ckd(self, i) ==
  LET xkey == IF IsPriv(self) THEN XPrivKey_ckd(self, i) ELSE XPubKey_ckd(self, i) IN
  IF xkey.err # "" THEN xkey
  ELSE LET ident == id(self) IN
       IF ident.err # "" THEN ident
       ELSE Ok(NewNode("PrivBIP32Node", xkey.val.keydata, xkey.val.chaincode,
                       self.depth + 1, SliceTo(ident.val, FpLen), i))

\* PubBIP32Node.ckd: super().ckd(i) is XPrivKey.ckd for a private node and
\* XPubKey.ckd for a public one; the child is of the class of self
PubBIP32Node_ckd(self, i) ==
  LET xkey == IF IsPriv(self) THEN XPrivKey_ckd(self, i) ELSE XPubKey_ckd(self, i) IN
  IF xkey.err # "" THEN xkey
  ELSE
    LET depth == self.depth + 1
        ident == id(self)
    IN IF ident.err # "" THEN ident
       ELSE Ok(NewNode(self.cls, xkey.val.keydata, xkey.val.chaincode, depth,
                       SliceTo(ident.val, FpLen), i))

\* PubBIP32Node.__bytes__ writing the index with to_bytes(4, 'little')
Mut_PubBIP32Node_bytes(self) ==
  IF ~FitsBytes(self.depth, 1) THEN Raise("OverflowError")
  ELSE IF ~FitsBytes(self.index, IdxLen) THEN Raise("OverflowError")
  ELSE
    LET depth == IntToBytes(self.depth, 1)
        fingr == self.parent_fingerprint
        chnum == Reverse(IntToBytes(self.index, IdxLen))
        ccode == self.chaincode
        keydt == IF IsPriv(self) THEN XPrivKey_bytes(self) ELSE XPubKey_bytes(self)
        vbytes == IF IsPriv(self) THEN PrivVbytes ELSE PubVbytes
    IN IF keydt.err # "" THEN keydt
       ELSE Ok(vbytes \o depth \o fingr \o chnum \o ccode \o keydt.val)

\* PubBIP32Node.__bytes__: the BIP32 serialization; super().__bytes__() is
\* XPrivKey.__bytes__ for a private node and XPubKey.__bytes__ for a public one
PubBIP32Node_bytes(self) ==
  IF ~FitsBytes(self.depth, 1) THEN Raise("OverflowError")
  ELSE IF ~FitsBytes(self.index, IdxLen) THEN Raise("OverflowError")
  ELSE
    LET depth == IntToBytes(self.depth, 1)
        fingr == self.parent_fingerprint
        chnum == IntToBytes(self.index, IdxLen)
        ccode == self.chaincode
        keydt == IF IsPriv(self) THEN XPrivKey_bytes(self) ELSE XPubKey_bytes(self)
        vbytes == IF IsPriv(self) THEN PrivVbytes ELSE PubVbytes
    IN IF keydt.err # "" THEN keydt
       ELSE Ok(vbytes \o depth \o fingr \o chnum \o ccode \o keydt.val)

\* the public node PrivBIP32Node.xpub builds: PubBIP32Node(self.pubkey, *self[1:])
ToPublic(self) ==
  NewNode("PubBIP32Node", pubkey(self), self.chaincode, self.depth,
          self.parent_fingerprint, self.index)

\* PubBIP32Node.xpub / PrivBIP32Node.xpub
xpub(self) ==
  LET b == PubBIP32Node_bytes(IF IsPriv(self) THEN ToPublic(self) ELSE self) IN
  IF b.err # "" THEN b ELSE Ok(b58enc(b.val, TRUE))

\* PrivBIP32Node.xprv (a public node has no such attribute)
xprv(self) ==
  IF ~IsPriv(self) THEN Raise("AttributeError")
  ELSE LET b == PubBIP32Node_bytes(self) IN
       IF b.err # "" THEN b ELSE Ok(b58enc(b.val, TRUE))

\* "Bitcoin seed"
BitcoinSeed == <<66, 105, 116, 99, 111, 105, 110, 32, 115, 101, 101, 100>>

\* from_entropy without "assert k and k < N"
Mut_from_entropy(seed) ==
  LET I == HmacSha512(BitcoinSeed, seed)
      k == BytesToInt(SliceTo(I, KeyLen))
      c == SliceFrom(I, KeyLen)
  IN Ok(NewNode("PrivBIP32Node", k, c, 0, Zeros(FpLen), 0))

\* XPrivKey.from_entropy, called on PrivBIP32Node
from_entropy(seed) ==
  LET I == HmacSha512(BitcoinSeed, seed)
      k == BytesToInt(SliceTo(I, KeyLen))
      c == SliceFrom(I, KeyLen)
  IN IF ~(k # 0 /\ k < N) THEN Raise("AssertionError: Invalid privkey")
     ELSE Ok(NewNode("PrivBIP32Node", k, c, 0, Zeros(FpLen), 0))

\* node_from_str without "assert Kbytes[0] == 0"
Mut_node_from_str(s) ==
  LET d == b58dec(s, TRUE) IN
  IF d.err # "" THEN d
  ELSE
    LET b == d.val
        c == Slice(b, 0 - (CcLen + KeyLen + 1), 0 - (KeyLen + 1))
        Kbytes == SliceFrom(b, 0 - (KeyLen + 1))
    IN
    IF Len(b) <= VLen THEN Raise("IndexError")
    ELSE
      LET depth == b[VLen + 1]
          fingerp == Slice(b, VLen + 1, VLen + 1 + FpLen)
          index == BytesToInt(Slice(b, VLen + 1 + FpLen, VLen + 1 + FpLen + IdxLen))
      IN
      IF SliceTo(b, VLen) = PrivVbytes THEN
        Ok(NewNode("PrivBIP32Node", BytesToInt(Kbytes), c, depth, fingerp, index))
      ELSE IF SliceTo(b, VLen) = PubVbytes THEN
        LET K == PointFromBytes(Kbytes) IN
        IF K.err # "" THEN K
        ELSE Ok(NewNode("PubBIP32Node", K.val, c, depth, fingerp, index))
      ELSE Raise("ValueError: bad BIP32 node encoding")

\* node_from_str
node_from_str(s) ==
  LET d == b58dec(s, TRUE) IN
  IF d.err # "" THEN d
  ELSE
    LET b == d.val
        c == Slice(b, 0 - (CcLen + KeyLen + 1), 0 - (KeyLen + 1))
        Kbytes == SliceFrom(b, 0 - (KeyLen + 1))
    IN
    IF Len(b) <= VLen THEN Raise("IndexError")
    ELSE
      LET depth == b[VLen + 1]
          fingerp == Slice(b, VLen + 1, VLen + 1 + FpLen)
          index == BytesToInt(Slice(b, VLen + 1 + FpLen, VLen + 1 + FpLen + IdxLen))
      IN
      IF SliceTo(b, VLen) = PrivVbytes THEN
        IF Kbytes[1] # 0 THEN Raise("AssertionError")
        ELSE Ok(NewNode("PrivBIP32Node", BytesToInt(Kbytes), c, depth, fingerp, index))
      ELSE IF SliceTo(b, VLen) = PubVbytes THEN
        LET K == PointFromBytes(Kbytes) IN
        IF K.err # "" THEN K
        ELSE Ok(NewNode("PubBIP32Node", K.val, c, depth, fingerp, index))
      ELSE Raise("ValueError: bad BIP32 node encoding")

(***************************************************************************)
(* XPubKey.derive: path strings.                                           *)
(***************************************************************************)
DIGITS == <<"0", "1", "2", "3", "4", "5", "6", "7", "8", "9">>

IsDigit(c) == \E j \in 1..Len(DIGITS) : DIGITS[j] = c
DigitVal(c) == (CHOOSE j \in 1..Len(DIGITS) : DIGITS[j] = c) - 1

\* s.strip() of the blanks at both ends
Strip(s) == RStrip(SliceFrom(s, LeadingCount(s, " ")), " ")

\* the value of a string of digits and underscores
RECURSIVE DigitsValue(_, _)
DigitsValue(s, acc) ==
  IF s = <<>> THEN acc
  ELSE IF Head(s) = "_" THEN DigitsValue(Tail(s), acc)
  ELSE DigitsValue(Tail(s), acc * 10 + DigitVal(Head(s)))

\* the literals int() takes after the sign: digits, single underscores
\* allowed between two digits
IntLiteral(s) ==
  /\ s # <<>>
  /\ \A j \in 1..Len(s) :
       \/ IsDigit(s[j])
       \/ /\ s[j] = "_"
          /\ 1 < j /\ j < Len(s)
          /\ IsDigit(s[j - 1]) /\ IsDigit(s[j + 1])

\* Python's int(str): blanks around, an optional sign, digits with underscores
PyInt(s) ==
  LET t == Strip(s)
      signed == t # <<>> /\ Head(t) \in {"+", "-"}
      body == IF signed THEN Tail(t) ELSE t
  IN IF ~IntLiteral(body) THEN Raise("ValueError")
     ELSE Ok((IF signed /\ Head(t) = "-" THEN 0 - 1 ELSE 1) * DigitsValue(body, 0))

\* path.split('/')
RECURSIVE Split(_, _)
Split(s, cur) ==
  IF s = <<>> THEN <<cur>>
  ELSE IF Head(s) = "/" THEN <<cur>> \o Split(Tail(s), <<>>)
  ELSE Split(Tail(s), Append(cur, Head(s)))

\* the segment rule without the hardening offset
Mut_SegmentIndex(x) ==
  IF x = <<>> THEN Raise("IndexError")
  ELSE IF x[Len(x)] # "H" THEN PyInt(x)
  ELSE PyInt(SliceTo(x, 0 - 1))

\* x = int(x) if x[-1] != 'H' else int(x[:-1]) + 0x80000000
SegmentIndex(x) ==
  IF x = <<>> THEN Raise("IndexError")
  ELSE IF x[Len(x)] # "H" THEN PyInt(x)
  ELSE LET v == PyInt(SliceTo(x, 0 - 1)) IN
       IF v.err # "" THEN v ELSE Ok(v.val + HARDENED)

\* the loop of derive: key = key.ckd(int(x)) for each segment
RECURSIVE DeriveLoop(_, _)
DeriveLoop(key, segs) ==
  IF segs = <<>> THEN Ok(key)
  ELSE LET x == SegmentIndex(Head(segs)) IN
       IF x.err # "" THEN x
       ELSE LET child == PubBIP32Node_ckd(key, x.val) IN
            IF child.err # "" THEN child
            ELSE DeriveLoop(child.val, Tail(segs))

\* derive without "if not path: return self"
Mut_derive(self, path) == DeriveLoop(self, Split(path, <<>>))

\* XPubKey.derive
derive(self, path) ==
  IF path = <<>> THEN Ok(self)
  ELSE DeriveLoop(self, Split(path, <<>>))

(***************************************************************************)
(* The copy of the module kept beside the package (deterministic.py).      *)
(***************************************************************************)
\* XPubKey.ckd of the copy: assert i < 0x80000000
legacy_XPubKey_ckd(self, i) ==
  IF ~(i < HARDENED) THEN Raise("AssertionError")
  ELSE XPubKey_ckd(self, i)

\* PubBIP32Node.ckd of the copy
legacy_PubBIP32Node_ckd(self, i) ==
  LET xkey == IF IsPriv(self) THEN XPrivKey_ckd(self, i) ELSE legacy_XPubKey_ckd(self, i) IN
  IF xkey.err # "" THEN xkey
  ELSE LET depth == self.depth + 1
           finger == id(self)
       IN IF finger.err # "" THEN finger
          ELSE Ok(NewNode(self.cls, xkey.val.keydata, xkey.val.chaincode, depth,
                          SliceTo(finger.val, FpLen), i))

\* the loop of derive in the copy
RECURSIVE legacy_DeriveLoop(_, _)
legacy_DeriveLoop(key, segs) ==
  IF segs = <<>> THEN Ok(key)
  ELSE LET x == SegmentIndex(Head(segs)) IN
       IF x.err # "" THEN x
       ELSE LET child == legacy_PubBIP32Node_ckd(key, x.val) IN
            IF child.err # "" THEN child
            ELSE legacy_DeriveLoop(child.val, Tail(segs))

\* XPubKey.derive of the copy: no test of the empty path
legacy_derive(self, path) == legacy_DeriveLoop(self, Split(path, <<>>))

(***************************************************************************)
(* Inputs offered to the operations.                                       *)
(***************************************************************************)
\* seed bytes given to from_entropy
Seeds == {<<b>> : b \in 0..MaxSeed}

\* child indices given to ckd
Indices == {0, 1, HARDENED - 1, HARDENED, HARDENED + 1}

\* tree positions written into the strings given to node_from_str
Positions ==
  { [depth |-> 0, fp |-> Zeros(FpLen), index |-> 0],
    [depth |-> 0, fp |-> <<171>>, index |-> 1],
    [depth |-> 3, fp |-> <<171>>, index |-> HARDENED + 1],
    [depth |-> 255, fp |-> <<18>>, index |-> 0] }

\* version bytes: the two known ones and an unknown one
Versions == {PrivVbytes, PubVbytes, <<4, 136, 178, 31>>}

\* 33-byte key fields: 0x00 and a scalar (also 0, N and above), a wrong
\* marker byte, compressed points and malformed points
KeyFields ==
  {<<0, k>> : k \in (0..MaxKey) \cup {N - 1, N, 255}}
    \cup {<<1, 7>>}
    \cup {<<2, 1>>, <<3, 1>>, <<2, 30>>, <<3, 12>>, <<2, 0>>, <<2, 31>>, <<4, 5>>}

Chaincodes == {<<5>>, <<200>>}

Payload(v, pos, cc, kf) ==
  v \o <<pos.depth>> \o pos.fp \o IntToBytes(pos.index, IdxLen) \o cc \o kf

\* payloads of the right length
Payloads ==
  {Payload(v, pos, cc, kf) : v \in Versions, pos \in Positions,
                             cc \in Chaincodes, kf \in KeyFields}

\* payloads that are too long (a byte more before the chaincode), too short
\* (no chaincode; version and depth only; version only)
BadLengths ==
  UNION {
    { v \o <<2>> \o <<171>> \o IntToBytes(1, IdxLen) \o <<9>> \o <<5>> \o kf,
      v \o <<0>> \o <<171>> \o IntToBytes(1, IdxLen) \o kf,
      v \o <<0>> \o kf,
      v \o <<0>>,
      v }
    : v \in Versions, kf \in {<<0, 2>>, <<3, 12>>} }

\* two well-formed payloads, one private and one public
Samples ==
  { Payload(PrivVbytes, [depth |-> 0, fp |-> Zeros(FpLen), index |-> 0], <<5>>, <<0, 1>>),
    Payload(PubVbytes, [depth |-> 3, fp |-> <<171>>, index |-> 1], <<200>>, <<3, 12>>) }

\* paths given to derive: well-formed ones, ones outside the grammar
\* digits["H"], and ones whose digits reach the hardened range
Paths ==
  { <<>>,
    <<"0">>, <<"1", "H">>, <<"1", "/", "0", "H">>,
    <<"4", "4", "H", "/", "0", "H", "/", "0", "H", "/", "0", "/", "0">>,
    <<"+", "1">>, <<"-", "1">>, <<"-", "1", "H">>, <<" ", "1">>, <<"1", "_", "0">>,
    <<"1", "h">>, <<"1", "H", "2">>, <<"H">>, <<"1", "/", "/", "2">>,
    <<"0", "/", "1", "h">>,
    <<"3", "2", "7", "6", "8">>, <<"3", "2", "7", "6", "8", "H">>,
    <<"6", "5", "5", "3", "6">> }

\* the strings that start a session of derive calls
RootTexts ==
  {b58enc(b, TRUE) : b \in Samples}
    \cup {b58enc(Payload(PrivVbytes, [depth |-> 254, fp |-> <<18>>, index |-> HARDENED], <<200>>, <<0, k>>), TRUE)
            : k \in 0..MaxKey}

\* a checksum that does not match
WrongSum(b) == [j \in 1..CsLen |-> (Sha256d4(b)[j] + 1) % 256]

\* strings: well-formed base58check, a wrong checksum, a trailing newline,
\* a character outside the alphabet, the empty string
Texts ==
  {b58enc(b, TRUE) : b \in Payloads \cup BadLengths}
    \cup {b58enc(b \o WrongSum(b), FALSE) : b \in BadLengths \cup Samples}
    \cup {b58enc(b, TRUE) \o <<"\n">> : b \in BadLengths \cup Samples}
    \cup {<<"0">> \o b58enc(b, TRUE) : b \in {PrivVbytes}}
    \cup {<<>>}

(***************************************************************************)
(* util.py and cashaddr.py.  The checksum register of polymod is 40 bits   *)
(* wide: it is kept as its eight 5-bit symbols, the highest first.         *)
(***************************************************************************)
\* the characters from '0' (code 48) to 'z' (code 122); two of them by name
ASCII ==
  << "0", "1", "2", "3", "4", "5", "6", "7", "8", "9", ":", ";", "<", "=",
     ">", "?", "@", "A", "B", "C", "D", "E", "F", "G", "H", "I", "J", "K",
     "L", "M", "N", "O", "P", "Q", "R", "S", "T", "U", "V", "W", "X", "Y",
     "Z", "[", "backslash", "]", "^", "_", "backquote", "a", "b", "c", "d", "e", "f", "g",
     "h", "i", "j", "k", "l", "m", "n", "o", "p", "q", "r", "s", "t", "u",
     "v", "w", "x", "y", "z" >>

\* ord(c)
Ord(c) == (CHOOSE j \in 1..Len(ASCII) : ASCII[j] = c) + 47

IsUpper(c) == \E j \in 18..43 : ASCII[j] = c
IsAlnum(c) == \E j \in (1..10) \cup (18..43) \cup (50..75) : ASCII[j] = c

\* s.lower()
Lower(s) == [j \in 1..Len(s) |-> IF IsUpper(s[j]) THEN ASCII[Ord(s[j]) + 32 - 47] ELSE s[j]]

\* bit i of v
Bit(v, i) == (v \div (2 ^ i)) % 2

\* a ^ b for 5-bit values
XorTable ==
  [a \in 0..31 |-> [b \in 0..31 |->
     ((Bit(a, 0) + Bit(b, 0)) % 2) + 2 * ((Bit(a, 1) + Bit(b, 1)) % 2)
       + 4 * ((Bit(a, 2) + Bit(b, 2)) % 2) + 8 * ((Bit(a, 3) + Bit(b, 3)) % 2)
       + 16 * ((Bit(a, 4) + Bit(b, 4)) % 2)]]

Xor5(a, b) == XorTable[a][b]

\* x ^ y for registers
RECURSIVE XorSeq(_, _)
XorSeq(x, y) ==
  IF x = <<>> THEN <<>> ELSE <<Xor5(Head(x), Head(y))>> \o XorSeq(Tail(x), Tail(y))

\* while bits >= tobits: bits -= tobits; ret.append((acc >> bits) & maxv)
RECURSIVE Drain(_, _, _, _)
Drain(acc, bits, ret, tobits) ==
  IF bits >= tobits
  THEN Drain(acc, bits - tobits, Append(ret, (acc \div (2 ^ (bits - tobits))) % (2 ^ tobits)), tobits)
  ELSE [bits |-> bits, ret |-> ret]

\* the loop of convertbits over data
RECURSIVE ConvertLoop(_, _, _, _, _, _)
ConvertLoop(data, frombits, tobits, acc, bits, ret) ==
  IF data = <<>> THEN [acc |-> acc, bits |-> bits, ret |-> ret, none |-> FALSE]
  ELSE LET value == Head(data) IN
       IF value < 0 \/ value \div (2 ^ frombits) # 0
       THEN [acc |-> acc, bits |-> bits, ret |-> ret, none |-> TRUE]
       ELSE LET max_acc == (2 ^ (frombits + tobits - 1)) - 1
                acc2 == (acc * (2 ^ frombits) + value) % (max_acc + 1)
                d == Drain(acc2, bits + frombits, ret, tobits)
            IN IF d.bits < tobits
               THEN ConvertLoop(Tail(data), frombits, tobits, acc2, d.bits, d.ret)
               ELSE [acc |-> acc2, bits |-> d.bits, ret |-> d.ret, none |-> TRUE]

\* util.convertbits without the padding symbol
Mut_convertbits(data, frombits, tobits, pad) ==
  LET end == ConvertLoop(data, frombits, tobits, 0, 0, <<>>)
      rest == (end.acc * (2 ^ (tobits - end.bits))) % (2 ^ tobits)
  IN IF end.none THEN Raise("None")
     ELSE IF pad THEN Ok(end.ret)
     ELSE IF end.bits >= frombits \/ rest # 0 THEN Raise("None")
     ELSE Ok(end.ret)

\* util.convertbits: the list of symbols, or None
convertbits(data, frombits, tobits, pad) ==
  LET end == ConvertLoop(data, frombits, tobits, 0, 0, <<>>)
      rest == (end.acc * (2 ^ (tobits - end.bits))) % (2 ^ tobits)
  IN IF end.none THEN Raise("None")
     ELSE IF pad THEN Ok(IF end.bits # 0 THEN Append(end.ret, rest) ELSE end.ret)
     ELSE IF end.bits >= frombits \/ rest # 0 THEN Raise("None")
     ELSE Ok(end.ret)

\* cashaddr alphabet
CASHALPHABET ==
  << "q", "p", "z", "r", "y", "9", "x", "8", "g", "f", "2", "t", "v", "d",
     "w", "0", "s", "3", "j", "n", "5", "4", "k", "h", "c", "e", "6", "m",
     "u", "a", "7", "l" >>

\* _GEN, each generator by its eight 5-bit symbols
GEN ==
  << <<19, 3, 25, 11, 25, 3, 19, 1>>,
     <<15, 6, 27, 22, 27, 6, 15, 2>>,
     <<30, 12, 31, 5, 31, 12, 30, 4>>,
     <<21, 24, 23, 10, 23, 24, 21, 8>>,
     <<3, 25, 7, 20, 7, 25, 3, 16>> >>

\* symbols of the checksum
PolyLen == 8

\* the register holding 1
PolyOne == Zeros(PolyLen - 1) \o <<1>>

\* for i in range(5): c ^= _GEN[i] if ((c0 >> i) & 1) else 0
RECURSIVE XorGens(_, _, _)
XorGens(c, c0, i) ==
  IF i = Len(GEN) THEN c
  ELSE LET x == IF Bit(c0, i) = 1 THEN XorSeq(c, GEN[i + 1]) ELSE c IN
       IF Len(x) = Len(c) THEN XorGens(x, c0, i + 1) ELSE x

\* one turn of the loop of polymod for the byte d
PolyStep(c, d) ==
  LET c0 == c[1]
      sh == Tail(c) \o <<0>>
      x == SubSeq(sh, 1, PolyLen - 2)
             \o <<Xor5(sh[PolyLen - 1], d \div 32), d % 32>>
  IN XorGens(x, c0, 0)

RECURSIVE PolyLoop(_, _)
PolyLoop(data, c) ==
  IF data = <<>> THEN c
  ELSE LET x == PolyStep(c, Head(data)) IN
       IF Len(x) = Len(c) THEN PolyLoop(Tail(data), x) ELSE x

\* polymod(data): the register, c ^ 1
polymod(data) == XorSeq(PolyLoop(data, PolyOne), PolyOne)

\* ALPHABET.find(x) for each x
b32decode(l) ==
  [j \in 1..Len(l) |->
     IF \E k \in 1..Len(CASHALPHABET) : CASHALPHABET[k] = l[j]
     THEN (CHOOSE k \in 1..Len(CASHALPHABET) : CASHALPHABET[k] = l[j]) - 1
     ELSE 0 - 1]

b32encode(data) == [j \in 1..Len(data) |-> CASHALPHABET[data[j] + 1]]

\* bytes([ord(x) & 0x1f for x in prefix] + [0])
prefix_expand(prefix) == [j \in 1..Len(prefix) |-> Ord(prefix[j]) % 32] \o <<0>>

calculate_checksum(prefix, payload) ==
  polymod(prefix_expand(prefix) \o payload \o Zeros(PolyLen))

verify_checksum(prefix, payload) ==
  polymod(prefix_expand(prefix) \o payload) = Zeros(PolyLen)

cashenc(pl, prefix) ==
  LET pl32 == convertbits(pl, 8, 5, TRUE).val
      checksum == calculate_checksum(prefix, pl32)
  IN prefix \o <<":">> \o b32encode(pl32 \o checksum)

\* s.split(sep)
RECURSIVE SplitOn(_, _, _)
SplitOn(s, sep, cur) ==
  IF s = <<>> THEN <<cur>>
  ELSE IF Head(s) = sep THEN <<cur>> \o SplitOn(Tail(s), sep, <<>>)
  ELSE SplitOn(Tail(s), sep, Append(cur, Head(s)))

cashdec(s) ==
  LET parts == SplitOn(s, ":", <<>>) IN
  IF Len(parts) # 2 THEN Raise("ValueError")
  ELSE
    LET prefix == parts[1]
        pltxt == Lower(parts[2])
        dec == b32decode(pltxt)
    IN IF \E j \in 1..Len(dec) : dec[j] = 0 - 1 THEN Raise("ValueError")
       ELSE IF ~verify_checksum(prefix, dec) THEN Raise("AssertionError: Bad checksum")
       ELSE LET pl == convertbits(SliceTo(dec, 0 - PolyLen), 5, 8, FALSE) IN
            IF pl.err # "" THEN Raise("TypeError") ELSE pl

\* re.match("[a-zA-Z0-9]*:[ALPHABET]+$", s)
is_cashaddr(s) ==
  \E k \in 1..Len(s) :
    /\ s[k] = ":"
    /\ \A j \in 1..(k - 1) : IsAlnum(s[j])
    /\ \E e \in {Len(s), Len(s) - 1} :
         /\ e > k
         /\ e = Len(s) - 1 => s[Len(s)] = "\n"
         /\ \A j \in (k + 1)..e : \E a \in 1..Len(CASHALPHABET) : CASHALPHABET[a] = s[j]

(***************************************************************************)
(* cashaddrconv.py                                                         *)
(***************************************************************************)
\* the default prefix of cashenc
DefaultPrefix == <<"b", "i", "t", "c", "o", "i", "n", "c", "a", "s", "h">>

\* convert_word giving the version byte 0 to every output
Mut_convert_word(word) ==
  LET cash == is_cashaddr(word)
      pl == IF cash THEN cashdec(word) ELSE b58dec(word, TRUE)
  IN IF pl.err # "" THEN pl
     ELSE LET ivbyte == SliceTo(pl.val, 1)
              hash == SliceFrom(pl.val, 1)
              ovbyte == <<0>>
              outaddr == IF cash THEN b58enc(ovbyte \o hash, TRUE)
                         ELSE cashenc(ovbyte \o hash, DefaultPrefix)
          IN Ok([ivbyte |-> ivbyte, ovbyte |-> ovbyte,
                 intype |-> IF cash THEN "CASHAD" ELSE "LEGACY",
                 legaddr |-> IF cash THEN outaddr ELSE word,
                 cashaddr |-> IF cash THEN word ELSE outaddr])

\* convert_word: version bytes, input type, legacy and cashaddr addresses
convert_word(word) ==
  LET cash == is_cashaddr(word)
      p2shvbyte == IF cash THEN <<5>> ELSE <<8>>
      pl == IF cash THEN cashdec(word) ELSE b58dec(word, TRUE)
  IN IF pl.err # "" THEN pl
     ELSE LET ivbyte == SliceTo(pl.val, 1)
              hash == SliceFrom(pl.val, 1)
              ovbyte == IF ivbyte = <<0>> THEN <<0>> ELSE p2shvbyte
              outaddr == IF cash THEN b58enc(ovbyte \o hash, TRUE)
                         ELSE cashenc(ovbyte \o hash, DefaultPrefix)
          IN Ok([ivbyte |-> ivbyte, ovbyte |-> ovbyte,
                 intype |-> IF cash THEN "CASHAD" ELSE "LEGACY",
                 legaddr |-> IF cash THEN outaddr ELSE word,
                 cashaddr |-> IF cash THEN word ELSE outaddr])

(***************************************************************************)
(* mnemonic.py.  A word carries WordBits bits (11 in the source, with a    *)
(* wordlist of 2048 words) and the checksum has one bit for every CsRatio  *)
(* bits of entropy (32 in the source), so that the entropy lengths EntMin  *)
(* to EntMax give the source's 12, 15, 18, 21 and 24 words.  A string is   *)
(* the sequence of its words and of the whitespace between them.           *)
(***************************************************************************)
\* bits of a word index (11)
WordBits == 3
\* entropy bits per checksum bit (32)
CsRatio == 8
\* entropy lengths in bytes: multiples of EntStep from EntMin to EntMax (4, 16, 32)
EntStep == 1
EntMin == 4
EntMax == 8
\* length of a sha256 digest in bytes (32)
ShaLen == 2

\* WORDLISTS[lang], the first 2^WordBits words of the english list
WORDLIST == <<"abandon", "ability", "able", "about", "above", "absent", "absorb", "abstract">>

\* hashlib.sha256(b).digest()
sha256(b) == Digest(Absorb(Absorb(61, b), <<Len(b)>>), ShaLen)

\* self.wordlist.index(x)
WordIndex(x) == CHOOSE j \in 1..Len(WORDLIST) : WORDLIST[j] = x

\* s[:n]
Take(s, n) == SubSeq(s, 1, IF n < Len(s) THEN n ELSE Len(s))

\* s[n:]
Drop(s, n) == SubSeq(s, n + 1, Len(s))

\* body(v), with v evaluated once
With(v, body(_)) == CHOOSE r \in {body(x) : x \in {v}} : TRUE

\* Mnemonic._check without the comparison of the checksum bits
Mut_Mnemonic_check(self) ==
  IF Len(self) \notin {12, 15, 18, 21, 24}
  THEN Raise("ValueError: Incorrect Mnemonic length")
  ELSE IF \E j \in 1..Len(self) : \A k \in 1..Len(WORDLIST) : WORDLIST[k] # self[j]
  THEN Raise("ValueError: Bad word(s)")
  ELSE Ok(self)

\* the checksum test of Mnemonic._check on the bits of the words
CheckBits(self, fullbits) ==
  LET ENT == (CsRatio * Len(fullbits)) \div (CsRatio + 1)
      csbits == Drop(fullbits, ENT)
  IN With(convertbits(Take(fullbits, ENT), 1, 8, TRUE), LAMBDA plbytes :
       IF plbytes.err # "" THEN Raise("TypeError")
       ELSE IF Take(convertbits(sha256(plbytes.val), 8, 1, TRUE).val, Len(csbits)) # csbits
       THEN Raise("ValueError: Bad mnemonic checksum")
       ELSE Ok(self))

\* Mnemonic._check: the instance, or the exception raised
Mnemonic_check(self) ==
  IF Len(self) \notin {12, 15, 18, 21, 24}
  THEN Raise("ValueError: Incorrect Mnemonic length")
  ELSE IF \E j \in 1..Len(self) : \A k \in 1..Len(WORDLIST) : WORDLIST[k] # self[j]
  THEN Raise("ValueError: Bad word(s)")
  ELSE With(convertbits([j \in 1..Len(self) |-> WordIndex(self[j]) - 1], WordBits, 1, TRUE).val,
            LAMBDA fullbits : CheckBits(self, fullbits))

\* the words _from_entropy builds: wl[x] for the symbols x of the entropy
\* bits followed by the checksum bits
EntropyWords(ent) ==
  LET ENT == Len(ent) * 8
      chk == Take(convertbits(sha256(ent), 8, 1, TRUE).val, ENT \div CsRatio)
      entbits == convertbits(ent, 8, 1, TRUE).val
  IN With(convertbits(entbits \o chk, 1, WordBits, TRUE).val,
          LAMBDA l : [j \in 1..Len(l) |-> WORDLIST[l[j] + 1]])

\* Mnemonic._from_entropy: cls(tuple(wl[x] for x in l)), checked by __init__
Mnemonic_from_entropy(ent) ==
  IF ~(Len(ent) % EntStep = 0 /\ Len(ent) >= EntMin /\ Len(ent) <= EntMax)
  THEN Raise("AssertionError")
  ELSE With(EntropyWords(ent), LAMBDA words : Mnemonic_check(words))

\* str.split(): the words between the whitespace
SplitWords(s) == SelectSeq(s, LAMBDA x : x # " ")

\* Mnemonic(data) for data of type bytes, str or an iterable of words;
\* Mnemonic(n) is Mnemonic(os.urandom(n))
Mnemonic(kind, data) ==
  IF kind = "bytes" THEN Mnemonic_from_entropy(data)
  ELSE IF kind = "str" THEN With(SplitWords(data), LAMBDA words : Mnemonic_check(words))
  ELSE Mnemonic_check(data)

(***************************************************************************)
(* XPrivKey.pubkey: functools.lru_cache in the package, the attribute      *)
(* _pubkey in the copy beside it.  The cache is the list of its entries,   *)
(* the least recently used first; its 128 entries are reduced to           *)
(* CacheSize.                                                              *)
(***************************************************************************)
\* maxsize of lru_cache() (128)
CacheSize == 2
\* threads of the process
Threads == {1, 2}
\* an attribute that is None
None == 0 - 1
\* the argument cc=None of XPubKey.__new__
NoneCc == <<None>>
\* values os.urandom may return
RandomCc == {<<0>>, <<9>>}

\* XPubKey.__new__: cc = urandom(32) if cc is None else cc
XPubKey_new(k, cc, rnd) == [keydata |-> k, chaincode |-> IF cc = NoneCc THEN rnd ELSE cc]

\* a cache key that leaves out everything but the chaincode
Mut_CacheKey(self) == <<0, self.chaincode, 0, <<>>, 0>>

\* the key lru_cache files the entry of self.pubkey under: the tuple self,
\* compared and hashed by its fields
CacheKey(self) ==
  <<self.keydata, self.chaincode, self.depth, self.parent_fingerprint, self.index>>

\* the position of the entry of key in the cache, 0 if it has none
CacheIndex(c, key) ==
  IF \E j \in 1..Len(c) : c[j].key = key
  THEN CHOOSE j \in 1..Len(c) : c[j].key = key
  ELSE 0

\* a hit makes the entry the most recently used one
CacheHit(c, j) == SubSeq(c, 1, j - 1) \o SubSeq(c, j + 1, Len(c)) \o <<c[j]>>

\* after the call: an entry stored meanwhile is left alone, a full cache
\* drops its least recently used entry for the new one
CacheStore(c, key, val) ==
  IF CacheIndex(c, key) # 0 THEN c
  ELSE IF Len(c) >= CacheSize THEN Append(Tail(c), [key |-> key, val |-> val])
  ELSE Append(c, [key |-> key, val |-> val])

\* self.pubkey of a package private key read in one piece: the point, the
\* cache afterwards, and whether G * self.keydata was computed
PubkeyRead(c, self) ==
  LET j == CacheIndex(c, CacheKey(self)) IN
  IF j # 0 THEN [pk |-> c[j].val, cache |-> CacheHit(c, j), miss |-> FALSE]
  ELSE LET pk == PointMul(G, self.keydata) IN
       [pk |-> pk, cache |-> CacheStore(c, CacheKey(self), pk), miss |-> TRUE]

\* XPrivKey.ckd and XPubKey.ckd with the point pk that self.pubkey returned
\* and the bytes rnd that os.urandom would return
XKey_ckd_read(self, i, pk, rnd) ==
  IF IsPriv(self)
  THEN LET plbe == IF i >= HARDENED THEN XPrivKey_bytes(self) ELSE PointBytes(pk) IN
       IF plbe.err # "" THEN plbe
       ELSE IF ~FitsBytes(i, IdxLen) THEN Raise("OverflowError")
       ELSE LET I == HmacSha512(self.chaincode, plbe.val \o IntToBytes(i, IdxLen))
                k == (BytesToInt(IL(I)) + self.keydata) % N
            IN Ok(XPubKey_new(k, IR(I), rnd))
  ELSE LET x == XPubKey_ckd(self, i) IN
       IF x.err # "" THEN x ELSE Ok(XPubKey_new(x.val.keydata, x.val.chaincode, rnd))

\* PubBIP32Node.ckd on the cache c: the outcome, the cache afterwards and
\* whether G * self.keydata was computed.  A private node reads self.pubkey
\* for a non-hardened index and for self.id.
CkdRead(self, i, c, rnd) ==
  LET rd == IF IsPriv(self) THEN PubkeyRead(c, self)
            ELSE [pk |-> self.keydata, cache |-> c, miss |-> FALSE]
      xkey == XKey_ckd_read(self, i, rd.pk, rnd)
      reads == IsPriv(self) /\ (i < HARDENED \/ xkey.err = "")
      after == IF reads THEN rd.cache ELSE c
      miss == reads /\ rd.miss
  IN IF xkey.err # "" THEN [o |-> xkey, cache |-> after, miss |-> miss]
     ELSE LET pb == PointBytes(rd.pk) IN
          IF pb.err # "" THEN [o |-> pb, cache |-> after, miss |-> miss]
          ELSE [o |-> Ok(NewNode(self.cls, xkey.val.keydata, xkey.val.chaincode,
                                  self.depth + 1, SliceTo(hash160(pb.val), FpLen), i)),
                cache |-> after, miss |-> miss]

\* the loop of derive on the cache c; misses lists, for every ckd made,
\* whether it computed the point of its key
RECURSIVE DeriveLoopRead(_, _, _, _, _)
DeriveLoopRead(key, segs, c, rnd, misses) ==
  IF segs = <<>> THEN [o |-> Ok(key), cache |-> c, misses |-> misses]
  ELSE LET x == SegmentIndex(Head(segs)) IN
       IF x.err # "" THEN [o |-> x, cache |-> c, misses |-> misses]
       ELSE CHOOSE end \in
              {IF step.o.err # ""
               THEN [o |-> step.o, cache |-> step.cache, misses |-> Append(misses, step.miss)]
               ELSE DeriveLoopRead(step.o.val, Tail(segs), step.cache, rnd,
                                   Append(misses, step.miss))
                 : step \in {CkdRead(key, x.val, c, rnd)}} : TRUE

\* XPubKey.derive on the cache c
DeriveRead(self, path, c, rnd) ==
  IF path = <<>> THEN [o |-> Ok(self), cache |-> c, misses |-> <<>>]
  ELSE DeriveLoopRead(self, Split(path, <<>>), c, rnd, <<>>)

\* id, xpub and bytes of a node, with the point pk that self.pubkey returned
ObserveRead(self, op, pk) ==
  IF op = "id"
  THEN LET pb == PointBytes(pk) IN IF pb.err # "" THEN pb ELSE Ok(hash160(pb.val))
  ELSE IF op = "xpub"
  THEN xpub(NewNode("PubBIP32Node", pk, self.chaincode, self.depth,
                    self.parent_fingerprint, self.index))
  ELSE PubBIP32Node_bytes(self)

\* an object of the heap: the module that made it, its fields, and the
\* attribute _pubkey the copy beside the package keeps
Object(kind, n) == [kind |-> kind, node |-> n, pubkey |-> None]

\* the objects the threads share: three private nodes and a public node of
\* the package, a private node of the copy beside it
Heap ==
  << Object("package", NewNode("PrivBIP32Node", 5, <<7>>, 0, <<0>>, 0)),
     Object("package", NewNode("PrivBIP32Node", 9, <<7>>, 0, <<0>>, 0)),
     Object("package", NewNode("PrivBIP32Node", 12, <<8>>, 1, <<3>>, 1)),
     Object("package", NewNode("PubBIP32Node", 5, <<7>>, 0, <<0>>, 0)),
     Object("legacy", NewNode("PrivBIP32Node", 5, <<7>>, 0, <<0>>, 0)) >>

\* the private objects of the package, the objects of the package
PackagePrivate == {r \in 1..Len(Heap) : Heap[r].kind = "package" /\ IsPriv(Heap[r].node)}
Package == {r \in 1..Len(Heap) : Heap[r].kind = "package"}
Legacy == {r \in 1..Len(Heap) : Heap[r].kind = "legacy"}

\* a thread outside of pubkey; ref and got are the object it read last and
\* the point it was given
Idle(ref, got) == [pc |-> "idle", ref |-> ref, got |-> got]

\* no call made on the heap yet
NoRes == [op |-> "none", self |-> 0, i |-> 0, path |-> <<>>, err |-> "", fresh |-> FALSE,
          out |-> NoNode, text |-> <<>>]

(***************************************************************************)
(* Inputs offered to the codecs.                                           *)
(***************************************************************************)
\* the sequences over S of length at most n
SeqsUpTo(S, n) == UNION {[1..k -> S] : k \in 0..n}

\* byte values: zero, the ends of the base58 digit range, the top byte
ByteSample == {0, 1, 57, 58, 255}

\* byte strings given to b58enc, the empty one and all-zero ones included
ByteStrings == SeqsUpTo(ByteSample, MaxBytes)

\* prefixes given to cashenc: none, the default one, one with capitals
Prefixes == {<<>>, DefaultPrefix, <<"P", "r", "e", "1">>}

\* key hashes written into addresses
Hashes == [1..IdLen -> ByteSample]

\* addresses given to convert_word: legacy P2PKH and P2SH addresses and
\* the cashaddr addresses of the same hashes
AddressWords ==
  {b58enc(<<v>> \o h, TRUE) : v \in {0, 5}, h \in Hashes}
    \cup {cashenc(<<v>> \o h, DefaultPrefix) : v \in {0, 8}, h \in Hashes}

\* entropy byte strings given to Mnemonic: every valid length and the
\* lengths next to them
Entropies ==
  {[j \in 1..n |-> IF j = 1 THEN a ELSE b] :
     n \in (EntMin - EntStep)..(EntMax + EntStep), a \in {0, 129, 255}, b \in {0, 129, 255}}

\* the mnemonics of the entropy strings of a valid length
GoodWords ==
  {o.val : o \in {x \in {Mnemonic_from_entropy(e) : e \in Entropies} : x.err = ""}}

\* the word after x in the wordlist
NextWord(x) == WORDLIST[(WordIndex(x) % Len(WORDLIST)) + 1]

\* word sequences given to Mnemonic: mnemonics, and mnemonics with the last
\* word dropped, a word that is in no wordlist, or one word exchanged
WordSeqs ==
  UNION {{w,
          Take(w, Len(w) - 1),
          <<"zebra">> \o Tail(w),
          <<NextWord(Head(w))>> \o Tail(w),
          Take(w, Len(w) - 1) \o <<NextWord(w[Len(w)])>>} : w \in GoodWords}

\* " ".join(w) with the whitespace doubled after the first word
RECURSIVE JoinWords(_)
JoinWords(w) ==
  IF Len(w) <= 1 THEN w ELSE <<Head(w), " ">> \o JoinWords(Tail(w))

\* strings given to Mnemonic
WordStrings == {<<Head(w), " ">> \o JoinWords(Tail(w)) : w \in WordSeqs}

\* no codec call made yet
NoIo == [op |-> "none", in |-> <<>>, check |-> FALSE, p |-> <<>>, mid |-> <<>>,
         err |-> "", out |-> <<>>]

\* the record of a codec call: input, parameters, text produced, outcome
IoCall(op, in, check, p, mid, o) ==
  [op |-> op, in |-> in, check |-> check, p |-> p, mid |-> mid,
   err |-> o.err, out |-> IF o.err = "" THEN o.val ELSE <<>>]

(***************************************************************************)
(* State: node is the node the session holds (NoNode before the first one  *)
(* is built), last records the last call and its outcome, text is the last *)
(* string xprv/xpub returned and src the node it serializes.  io is the    *)
(* last call of a codec.  cache is the lru_cache of XPrivKey.pubkey, objs  *)
(* the objects of the heap, thr the position of every thread inside        *)
(* pubkey, mults the number of times G * keydata was computed for each     *)
(* object and res the last call made on an object of the heap.             *)
(***************************************************************************)
Call(op, self, i, s, o) ==
  [op |-> op, self |-> self, i |-> i, s |-> s, err |-> o.err,
   out |-> IF o.err = "" THEN o.val ELSE NoNode]

Init ==
  /\ node = NoNode
  /\ last = Call("none", NoNode, 0, <<>>, Raise("none"))
  /\ text = <<>>
  /\ src = NoNode
  /\ nops = 0
  /\ io = NoIo
  /\ cache = <<>>
  /\ thr = [t \in Threads |-> Idle(0, None)]
  /\ mults = [r \in 1..Len(Heap) |-> 0]
  /\ objs = Heap
  /\ res = NoRes

\* PrivBIP32Node.from_entropy(seed): the first call of a session
FromEntropy(seed) ==
  /\ nops = 0
  /\ LET o == from_entropy(seed) IN
     /\ last' = Call("from_entropy", NoNode, 0, seed, o)
     /\ node' = IF o.err = "" THEN o.val ELSE node
  /\ nops' = nops + 1
  /\ UNCHANGED <<text, src>>
  /\ UNCHANGED <<codecvars, cachevars>>

\* node_from_str(s) on a string from outside: the first call of a session
NodeFromStr(s) ==
  /\ nops = 0
  /\ LET o == node_from_str(s) IN
     /\ last' = Call("node_from_str", NoNode, 0, s, o)
     /\ node' = IF o.err = "" THEN o.val ELSE node
  /\ nops' = nops + 1
  /\ UNCHANGED <<text, src>>
  /\ UNCHANGED <<codecvars, cachevars>>

\* node_from_str(text) on the string xprv/xpub returned
Reparse ==
  /\ nops < MaxOps
  /\ text # <<>>
  /\ LET o == node_from_str(text) IN
     /\ last' = Call("node_from_str", NoNode, 0, text, o)
     /\ node' = IF o.err = "" THEN o.val ELSE node
  /\ nops' = nops + 1
  /\ UNCHANGED <<text, src>>
  /\ UNCHANGED <<codecvars, cachevars>>

\* node.ckd(i)
Ckd(i) ==
  /\ nops < MaxOps
  /\ node # NoNode
  /\ LET o == PubBIP32Node_ckd(node, i) IN
     /\ last' = Call("ckd", node, i, <<>>, o)
     /\ node' = IF o.err = "" THEN o.val ELSE node
  /\ nops' = nops + 1
  /\ UNCHANGED <<text, src>>
  /\ UNCHANGED <<codecvars, cachevars>>

\* PubBIP32Node(node.pubkey, *node[1:]) of a private node
Project ==
  /\ nops < MaxOps
  /\ IsPriv(node)
  /\ last' = Call("to_public", node, 0, <<>>, Ok(ToPublic(node)))
  /\ node' = ToPublic(node)
  /\ nops' = nops + 1
  /\ UNCHANGED <<text, src>>
  /\ UNCHANGED <<codecvars, cachevars>>

\* node.xprv
Xprv ==
  /\ nops < MaxOps
  /\ node # NoNode
  /\ LET o == xprv(node) IN
     /\ last' = [Call("xprv", node, 0, IF o.err = "" THEN o.val ELSE <<>>, Ok(node))
                   EXCEPT !.err = o.err]
     /\ text' = IF o.err = "" THEN o.val ELSE text
     /\ src' = IF o.err = "" THEN node ELSE src
  /\ nops' = nops + 1
  /\ UNCHANGED node
  /\ UNCHANGED <<codecvars, cachevars>>

\* node.xpub
Xpub ==
  /\ nops < MaxOps
  /\ node # NoNode
  /\ LET o == xpub(node) IN
     /\ last' = [Call("xpub", node, 0, IF o.err = "" THEN o.val ELSE <<>>, Ok(node))
                   EXCEPT !.err = o.err]
     /\ text' = IF o.err = "" THEN o.val ELSE text
     /\ src' = IF o.err = "" THEN (IF IsPriv(node) THEN ToPublic(node) ELSE node) ELSE src
  /\ nops' = nops + 1
  /\ UNCHANGED node
  /\ UNCHANGED <<codecvars, cachevars>>

\* node.derive(path)
Derive(path) ==
  /\ nops < MaxOps
  /\ node # NoNode
  /\ LET o == derive(node, path) IN
     /\ last' = Call("derive", node, 0, path, o)
     /\ node' = IF o.err = "" THEN o.val ELSE node
  /\ nops' = nops + 1
  /\ UNCHANGED <<text, src>>
  /\ UNCHANGED <<codecvars, cachevars>>

\* node.derive(path) with the copy of the module
LegacyDerive(path) ==
  /\ nops < MaxOps
  /\ node # NoNode
  /\ LET o == legacy_derive(node, path) IN
     /\ last' = Call("legacy_derive", node, 0, path, o)
     /\ node' = IF o.err = "" THEN o.val ELSE node
  /\ nops' = nops + 1
  /\ UNCHANGED <<text, src>>
  /\ UNCHANGED <<codecvars, cachevars>>

Next ==
  \/ \E seed \in Seeds : FromEntropy(seed)
  \/ \E s \in Texts : NodeFromStr(s)
  \/ Reparse
  \/ \E i \in Indices : Ckd(i)
  \/ Project
  \/ Xprv
  \/ Xpub

Spec == Init /\ [][Next]_vars

\* sessions of derive calls
NextPath ==
  \/ \E seed \in Seeds : FromEntropy(seed)
  \/ \E s \in RootTexts : NodeFromStr(s)
  \/ \E path \in Paths : Derive(path)
  \/ \E path \in Paths : LegacyDerive(path)
  \/ Project

SpecPath == Init /\ [][NextPath]_vars

\* b58enc(b, check)
B58Enc ==
  /\ io.op = "none"
  /\ \E b \in ByteStrings, check \in BOOLEAN :
       io' = IoCall("b58enc", b, check, <<>>, b58enc(b, check), Ok(<<>>))
  /\ UNCHANGED <<nodevars, cachevars>>

\* b58dec of the string b58enc returned
B58Dec ==
  /\ io.op = "b58enc"
  /\ io' = IoCall("b58dec", io.in, io.check, <<>>, io.mid, b58dec(io.mid, io.check))
  /\ UNCHANGED <<nodevars, cachevars>>

\* cashenc(pl, prefix)
CashEnc ==
  /\ io.op = "none"
  /\ \E pl \in ByteStrings, prefix \in Prefixes :
       io' = IoCall("cashenc", pl, FALSE, prefix, cashenc(pl, prefix), Ok(<<>>))
  /\ UNCHANGED <<nodevars, cachevars>>

\* cashdec of the string cashenc returned
CashDec ==
  /\ io.op = "cashenc"
  /\ io' = IoCall("cashdec", io.in, FALSE, io.p, io.mid, cashdec(io.mid))
  /\ UNCHANGED <<nodevars, cachevars>>

\* convert_word(word)
ConvertWord ==
  /\ io.op = "none"
  /\ \E word \in AddressWords : \E o \in {convert_word(word)} :
       io' = IoCall("convert_word", word, FALSE, <<>>,
                    IF o.err # "" THEN <<>>
                    ELSE IF o.val.intype = "LEGACY" THEN o.val.cashaddr ELSE o.val.legaddr,
                    o)
  /\ UNCHANGED <<nodevars, cachevars>>

\* convert_word of the address convert_word returned
ConvertBack ==
  /\ io.op = "convert_word"
  /\ io.err = ""
  /\ io' = IoCall("convert_back", io.in, FALSE, <<>>, io.mid, convert_word(io.mid))
  /\ UNCHANGED <<nodevars, cachevars>>


\* Mnemonic(data) for entropy bytes, a string or an iterable of words
MnemonicNew ==
  /\ io.op = "none"
  /\ \E kind \in {"bytes", "iter", "str"} :
       \E data \in (IF kind = "bytes" THEN Entropies
                    ELSE IF kind = "iter" THEN WordSeqs ELSE WordStrings) :
         io' = IoCall("Mnemonic", data, FALSE, <<kind>>, <<>>, Mnemonic(kind, data))
  /\ UNCHANGED <<nodevars, cachevars>>

\* Mnemonic(n): n bytes drawn from os.urandom
MnemonicInt ==
  /\ io.op = "none"
  /\ \E n \in (EntMin - EntStep)..(EntMax + EntStep) :
       \E entropy \in {e \in Entropies : Len(e) = n} :
         io' = IoCall("Mnemonic", <<n>>, FALSE, <<"int">>, entropy, Mnemonic("bytes", entropy))
  /\ UNCHANGED <<nodevars, cachevars>>

\* calls of the codecs
NextCodec ==
  \/ B58Enc
  \/ B58Dec
  \/ CashEnc
  \/ CashDec
  \/ ConvertWord
  \/ ConvertBack
  \/ MnemonicNew
  \/ MnemonicInt

SpecCodec == Init /\ [][NextCodec]_vars

(***************************************************************************)
(* The pubkey caches: threads reading self.pubkey, and calls made on the   *)
(* objects of the heap.  G * self.keydata is Python code, so a thread may  *)
(* be suspended between the test of the cache and the store.               *)
(***************************************************************************)
\* indices and paths given to the objects of the heap
HeapIndices == {0, HARDENED, IndexLimit}
HeapPaths == {<<>>, <<"0">>, <<"0", "/", "1", "H">>, <<"x">>}

\* threads inside G * self.keydata of object r
Computing(r) == Cardinality({u \in Threads : thr[u].pc # "idle" /\ thr[u].ref = r})

\* the record of a call on object r
Res(op, r, i, path, o, fresh) ==
  [op |-> op, self |-> r, i |-> i, path |-> path, err |-> o.err,
   fresh |-> fresh /\ o.err = "",
   out |-> IF o.err = "" /\ op \in {"ckd", "derive"} THEN o.val ELSE NoNode,
   text |-> IF o.err = "" /\ op \notin {"ckd", "derive"} THEN o.val ELSE <<>>]

\* self._pubkey = pk writing the attribute depth instead
Mut_SetPubkey(o, pk) == [o EXCEPT !.node.depth = pk]

\* self._pubkey = pk
SetPubkey(o, pk) == [o EXCEPT !.pubkey = pk]

\* thread t reads pubkey of the private key r of the package: the wrapper
\* of lru_cache looks the key up and returns the entry if there is one
Lookup(t, r) ==
  /\ thr[t].pc = "idle"
  /\ r \in PackagePrivate
  /\ LET j == CacheIndex(cache, CacheKey(objs[r].node)) IN
     IF j # 0
     THEN /\ cache' = CacheHit(cache, j)
          /\ thr' = [thr EXCEPT ![t] = Idle(r, cache[j].val)]
     ELSE /\ mults[r] + Computing(r) < MaxMults
          /\ thr' = [thr EXCEPT ![t] = [pc |-> "call", ref |-> r, got |-> None]]
          /\ UNCHANGED cache
  /\ UNCHANGED <<mults, objs, res, nodevars, codecvars>>

\* thread t, after a miss: G * self.keydata, then the store
CallStore(t) ==
  /\ thr[t].pc = "call"
  /\ LET r == thr[t].ref
         self == objs[r].node
         pk == PointMul(G, self.keydata)
     IN /\ mults' = [mults EXCEPT ![r] = @ + 1]
        /\ cache' = CacheStore(cache, CacheKey(self), pk)
        /\ thr' = [thr EXCEPT ![t] = Idle(r, pk)]
  /\ UNCHANGED <<objs, res, nodevars, codecvars>>

\* thread t reads pubkey of the private key r of the copy beside the
\* package: if self._pubkey is None
LegacyTest(t, r) ==
  /\ thr[t].pc = "idle"
  /\ r \in Legacy
  /\ IF objs[r].pubkey # None
     THEN thr' = [thr EXCEPT ![t] = Idle(r, objs[r].pubkey)]
     ELSE /\ mults[r] + Computing(r) < MaxMults
          /\ thr' = [thr EXCEPT ![t] = [pc |-> "assign", ref |-> r, got |-> None]]
  /\ UNCHANGED <<cache, mults, objs, res, nodevars, codecvars>>

\* thread t, having found None: self._pubkey = G * self._key; return self._pubkey
LegacyAssign(t) ==
  /\ thr[t].pc = "assign"
  /\ LET r == thr[t].ref
         pk == PointMul(G, objs[r].node.keydata)
     IN /\ mults' = [mults EXCEPT ![r] = @ + 1]
        /\ objs' = [objs EXCEPT ![r] = SetPubkey(@, pk)]
        /\ thr' = [thr EXCEPT ![t] = Idle(r, objs'[r].pubkey)]
  /\ UNCHANGED <<cache, res, nodevars, codecvars>>

\* node.ckd(i) on the node r of the package
CkdOn(r, i) ==
  /\ r \in Package
  /\ res = NoRes
  /\ \E rnd \in RandomCc : \E c \in {CkdRead(objs[r].node, i, cache, rnd)} :
       /\ c.miss => mults[r] + Computing(r) < MaxMults
       /\ cache' = c.cache
       /\ mults' = IF c.miss THEN [mults EXCEPT ![r] = @ + 1] ELSE mults
       /\ res' = Res("ckd", r, i, <<>>, c.o, TRUE)
  /\ UNCHANGED <<thr, objs, nodevars, codecvars>>

\* node.derive(path) on the node r of the package; the empty path returns
\* the node itself
DeriveOn(r, path) ==
  /\ r \in Package
  /\ res = NoRes
  /\ \E rnd \in RandomCc : \E d \in {DeriveRead(objs[r].node, path, cache, rnd)} :
       LET miss == d.misses # <<>> /\ d.misses[1]
       IN /\ miss => mults[r] + Computing(r) < MaxMults
          /\ cache' = d.cache
          /\ mults' = IF miss THEN [mults EXCEPT ![r] = @ + 1] ELSE mults
          /\ res' = Res("derive", r, 0, path, d.o, path # <<>>)
  /\ UNCHANGED <<thr, objs, nodevars, codecvars>>

\* node.id, node.xpub or bytes(node) on the node r of the package; id and
\* xpub of a private node read self.pubkey
ObserveOn(r, op) ==
  /\ r \in Package
  /\ res = NoRes
  /\ LET self == objs[r].node
         reads == IsPriv(self) /\ op \in {"id", "xpub"}
         rd == IF reads THEN PubkeyRead(cache, self)
               ELSE [pk |-> self.keydata, cache |-> cache, miss |-> FALSE]
     IN /\ rd.miss => mults[r] + Computing(r) < MaxMults
        /\ cache' = rd.cache
        /\ mults' = IF rd.miss THEN [mults EXCEPT ![r] = @ + 1] ELSE mults
        /\ res' = Res(op, r, 0, <<>>, ObserveRead(self, op, rd.pk), FALSE)
  /\ UNCHANGED <<thr, objs, nodevars, codecvars>>

\* the caller drops the result of the call
Forget ==
  /\ res # NoRes
  /\ res' = NoRes
  /\ UNCHANGED <<cache, thr, mults, objs, nodevars, codecvars>>

\* the steps of the threads reading pubkey
NextCache ==
  \/ \E t \in Threads, r \in 1..Len(Heap) : Lookup(t, r)
  \/ \E t \in Threads : CallStore(t)
  \/ \E t \in Threads, r \in 1..Len(Heap) : LegacyTest(t, r)
  \/ \E t \in Threads : LegacyAssign(t)

SpecCache == Init /\ [][NextCache]_vars

\* the thread that makes the calls on the heap
MainThread == 1

\* the calls one thread makes on the objects of the heap
NextHeap ==
  \/ \E r \in 1..Len(Heap), i \in HeapIndices : CkdOn(r, i)
  \/ \E r \in 1..Len(Heap), path \in HeapPaths : DeriveOn(r, path)
  \/ \E r \in 1..Len(Heap), op \in {"id", "xpub", "bytes"} : ObserveOn(r, op)
  \/ Forget
  \/ \E r \in 1..Len(Heap) : LegacyTest(MainThread, r)
  \/ LegacyAssign(MainThread)

SpecHeap == Init /\ [][NextHeap]_vars

(***************************************************************************)
(* Properties.                                                             *)
(***************************************************************************)
\* the bytes b58dec(s, True) decodes before it looks at the checksum
Raw(s) == b58dec(s, FALSE)
\* the payload node_from_str works on
Decoded(s) == b58dec(s, TRUE)
\* the key field node_from_str reads: the last 33 bytes
KeyField(b) == SliceFrom(b, 0 - (KeyLen + 1))

C2_PublicPrivateCommute ==
  (last.op = "ckd" /\ IsPriv(last.self) /\ last.i < HARDENED)
    => LET p == PubBIP32Node_ckd(ToPublic(last.self), last.i) IN
       /\ (last.err = "") = (p.err = "")
       /\ last.err = "" =>
            /\ ToPublic(last.out) = p.val
            /\ IsPub(p.val)

C2_Witness ==
  /\ last.op = "ckd"
  /\ IsPriv(last.self)
  /\ last.i = 1
  /\ last.self.depth > 0
  /\ last.err = ""
  /\ last.out.keydata # 0

\* a node within the data model: depth a byte, index 32 bit, key in range
ValidNode(n) ==
  /\ n.cls \in {"PrivBIP32Node", "PubBIP32Node"}
  /\ n.depth \in 0..255
  /\ n.index \in 0..(IndexLimit - 1)
  /\ Len(n.parent_fingerprint) = FpLen
  /\ Len(n.chaincode) = CcLen
  /\ IsPriv(n) => n.keydata \in 1..(N - 1)
  /\ IsPub(n) => n.keydata \in 1..(N - 1)

\* C3: parsing the string xprv/xpub made of a valid node gives a node of the
\* same class whose serialization is byte-identical to the original's.
C3_RoundTrip ==
  (last.op = "node_from_str" /\ src # NoNode /\ last.s = text /\ ValidNode(src))
    => /\ last.err = ""
       /\ last.out.cls = src.cls
       /\ PubBIP32Node_bytes(last.out).err = ""
       /\ PubBIP32Node_bytes(last.out) = PubBIP32Node_bytes(src)

C3_Witness ==
  /\ last.op = "node_from_str"
  /\ src # NoNode
  /\ last.s = text
  /\ ValidNode(src)
  /\ IsPriv(src)
  /\ src.depth > 0
  /\ src.index >= HARDENED
  /\ last.err = ""

\* C4: every node returned has a depth in 0..255.
C4_DepthInByte ==
  node # NoNode => node.depth \in 0..255

\* C5: ckd of a private node fails, returning no node, when IL >= N or the
\* child scalar (IL + parent scalar) mod N is 0.
C5_PrivateDerivationRejects ==
  (last.op = "ckd" /\ IsPriv(last.self))
    => LET I == XPrivKey_I(last.self, last.i) IN
       (/\ I.err = ""
        /\ \/ BytesToInt(IL(I.val)) >= N
           \/ (BytesToInt(IL(I.val)) + last.self.keydata) % N = 0)
         => (last.err # "" /\ last.out = NoNode)

\* C6: every private node returned has a scalar with 1 <= scalar < N.
C6_ScalarInRange ==
  IsPriv(node) => (1 <= node.keydata /\ node.keydata < N)

\* C7: ckd of a public node with a non-hardened index returns the point
\* IL*G + parent point with chaincode IR, and fails, returning no node, when
\* IL >= N or that point is the point at infinity.
C7_PublicDerivationRejects ==
  (last.op = "ckd" /\ IsPub(last.self) /\ last.i < HARDENED)
    => LET I == XPubKey_I(last.self, last.i) IN
       I.err = "" =>
         LET k == BytesToInt(IL(I.val))
             K == PointAdd(PointMul(G, k), last.self.keydata)
         IN IF k >= N \/ K = INFINITY
            THEN last.err # "" /\ last.out = NoNode
            ELSE last.err = "" => (last.out.keydata = K /\ last.out.chaincode = IR(I.val))

\* C8: node_from_str fails, returning no node, when the decoded payload is
\* not exactly 78 bytes long.
C8_LengthChecked ==
  last.op = "node_from_str"
    => LET d == Decoded(last.s) IN
       (d.err = "" /\ Len(d.val) # PayloadLen)
         => (last.err # "" /\ last.out = NoNode)

\* C9: node_from_str returns a node only for the private version bytes with
\* a zero first byte of the key field, then a private node, or for the
\* public version bytes, then a public node; otherwise it raises and returns
\* no node.
C9_VersionChecked ==
  last.op = "node_from_str"
    => LET d == Decoded(last.s) IN
       /\ last.err = "" =>
            /\ d.err = ""
            /\ \/ /\ SliceTo(d.val, VLen) = PrivVbytes
                  /\ KeyField(d.val)[1] = 0
                  /\ IsPriv(last.out)
               \/ /\ SliceTo(d.val, VLen) = PubVbytes
                  /\ IsPub(last.out)
       /\ last.err # "" => last.out = NoNode
       /\ (d.err = "" /\ Len(d.val) >= VLen /\ SliceTo(d.val, VLen) \notin {PrivVbytes, PubVbytes})
            => last.err \in {"ValueError: bad BIP32 node encoding", "IndexError"}

C9_Witness ==
  /\ last.op = "node_from_str"
  /\ Decoded(last.s).err = ""
  /\ Len(Decoded(last.s).val) = PayloadLen
  /\ SliceTo(Decoded(last.s).val, VLen) = PrivVbytes
  /\ KeyField(Decoded(last.s).val)[1] # 0
  /\ last.err = "AssertionError"

\* C10: base58check decoding returns the payload only when the last 4 decoded
\* bytes are the first 4 bytes of the double SHA-256 of the bytes before
\* them; otherwise it raises AssertionError 'Checksum Failed' and no node is
\* returned.
C10_ChecksumVerified ==
  (last.op = "node_from_str" /\ Raw(last.s).err = "")
    => LET raw == Raw(last.s).val
           matches == Sha256d4(SliceTo(raw, 0 - CsLen)) = SliceFrom(raw, 0 - CsLen)
       IN /\ ~matches => (last.err = "AssertionError: Checksum Failed" /\ last.out = NoNode)
          /\ matches => /\ last.err # "AssertionError: Checksum Failed"
                        /\ Decoded(last.s) = Ok(SliceTo(raw, 0 - CsLen))

C10_Witness ==
  /\ last.op = "node_from_str"
  /\ Raw(last.s).err = ""
  /\ Len(Raw(last.s).val) = PayloadLen + CsLen
  /\ SliceTo(Raw(last.s).val, VLen) = PrivVbytes
  /\ last.err = "AssertionError: Checksum Failed"

(***************************************************************************)
(* Paths: the grammar segment ("/" segment)*, segment = digits ["H"].      *)
(***************************************************************************)
\* the digits of a segment: the segment without its final "H"
SegmentDigits(x) ==
  IF x # <<>> /\ x[Len(x)] = "H" THEN SubSeq(x, 1, Len(x) - 1) ELSE x

\* a segment of the grammar
GrammarSegment(x) ==
  /\ SegmentDigits(x) # <<>>
  /\ \A j \in 1..Len(SegmentDigits(x)) : IsDigit(SegmentDigits(x)[j])

Segments(path) == Split(path, <<>>)

\* a path of the grammar
GrammarPath(path) ==
  \A j \in 1..Len(Segments(path)) : GrammarSegment(Segments(path)[j])

\* a path of the grammar whose digits are all below 0x80000000
ValidPath(path) ==
  /\ GrammarPath(path)
  /\ \A j \in 1..Len(Segments(path)) :
       DigitsValue(SegmentDigits(Segments(path)[j]), 0) < HARDENED

\* the index a segment of the grammar stands for
GrammarIndex(x) ==
  DigitsValue(SegmentDigits(x), 0) + (IF x[Len(x)] = "H" THEN HARDENED ELSE 0)

\* derive_child folded from the left over the segments
RECURSIVE FoldCkd(_, _)
FoldCkd(parent, segs) ==
  IF segs = <<>> THEN Ok(parent)
  ELSE LET child == PubBIP32Node_ckd(parent, GrammarIndex(Head(segs))) IN
       IF child.err # "" THEN child ELSE FoldCkd(child.val, Tail(segs))

\* C11: derive fails, returning no node, for every path with a segment that
\* is not digits followed by an optional upper-case H; and a path accepted
\* whose last segment ends in H gives a node with a hardened index.
C11_InvalidPathRejected ==
  (last.op = "derive" /\ last.s # <<>>)
    => /\ ~GrammarPath(last.s) => (last.err # "" /\ last.out = NoNode)
       /\ (last.err = "" /\ last.s[Len(last.s)] = "H") => last.out.index >= HARDENED

\* C12: derive fails, returning no node, for every path with a segment whose
\* digits are worth 0x80000000 or more, with or without the final H.
C12_DigitsRangeChecked ==
  (last.op = "derive" /\ last.s # <<>> /\ GrammarPath(last.s) /\ ~ValidPath(last.s))
    => (last.err # "" /\ last.out = NoNode)

\* C13: for a valid path derive gives what the left fold of derive_child over
\* the indices of its segments gives (digits, plus 0x80000000 for a final H),
\* each step taking the node of the step before as parent.
C13_DeriveIsLeftFold ==
  (last.op = "derive" /\ last.s # <<>> /\ ValidPath(last.s))
    => LET fold == FoldCkd(last.self, Segments(last.s)) IN
       /\ last.err = fold.err
       /\ last.err = "" => last.out = fold.val

C13_Witness ==
  /\ last.op = "derive"
  /\ last.s = <<"4", "4", "H", "/", "0", "H", "/", "0", "H", "/", "0", "/", "0">>
  /\ IsPriv(last.self)
  /\ last.err = ""
  /\ last.out.depth = last.self.depth + 5
  /\ last.out.index = 0

\* C14: derive ends in an error, returning no node, whenever a segment is
\* invalid or a derivation step of the fold fails.
C14_FailsAtomically ==
  (last.op = "derive" /\ last.s # <<>>)
    => LET invalid == ~ValidPath(last.s)
           failing == GrammarPath(last.s) /\ FoldCkd(last.self, Segments(last.s)).err # ""
       IN (invalid \/ failing) => (last.err # "" /\ last.out = NoNode)

\* C15: derive of the empty path returns the root itself, with no error, for
\* a private or a public root.
C15_EmptyPathReturnsRoot ==
  (last.op \in {"derive", "legacy_derive"} /\ last.s = <<>>)
    => (last.err = "" /\ last.out = last.self)

(***************************************************************************)
(* Tree positions, the root, private derivation and the layout.            *)
(***************************************************************************)
\* the compressed public point of a node: G * scalar for a private one
CompressedPoint(n) ==
  PointBytes(IF IsPriv(n) THEN PointMul(G, n.keydata) ELSE n.keydata)

\* C16: a child returned by ckd has the parent's depth plus one, the index
\* asked for, as parent fingerprint the first 4 bytes of HASH160 of the
\* parent's compressed public point, and the class of the parent.
C16_ChildPosition ==
  (last.op = "ckd" /\ last.err = "")
    => /\ last.out.depth = last.self.depth + 1
       /\ last.out.index = last.i
       /\ CompressedPoint(last.self).err = ""
       /\ last.out.parent_fingerprint
            = SubSeq(hash160(CompressedPoint(last.self).val), 1, FpLen)
       /\ last.out.cls = last.self.cls

C16_Witness ==
  /\ last.op = "ckd"
  /\ last.err = ""
  /\ IsPriv(last.self)
  /\ last.self.depth > 0
  /\ last.i = HARDENED + 1
  /\ last.out.parent_fingerprint
       # SubSeq(hash160(<<0>> \o IntToBytes(last.self.keydata, KeyLen)), 1, FpLen)

\* C17: every node returned with depth 0 has the parent fingerprint 0.
C17_RootFingerprintZero ==
  (node # NoNode /\ node.depth = 0) => node.parent_fingerprint = Zeros(FpLen)

\* C18: from_entropy takes I = HMAC-SHA512('Bitcoin seed', seed) and returns
\* the private root of scalar I[0:32], chaincode I[32:64], depth 0, parent
\* fingerprint 0 and index 0; it fails, returning no node, when the scalar is
\* 0 or at least N.
C18_RootFromSeed ==
  last.op = "from_entropy"
    => LET I == HmacSha512(BitcoinSeed, last.s)
           k == BytesToInt(SubSeq(I, 1, KeyLen))
           c == SubSeq(I, KeyLen + 1, KeyLen + CcLen)
       IN IF k = 0 \/ k >= N
          THEN last.err # "" /\ last.out = NoNode /\ node = NoNode
          ELSE /\ last.err = ""
               /\ last.out = NewNode("PrivBIP32Node", k, c, 0, Zeros(FpLen), 0)
               /\ node = last.out

C18_Witness ==
  /\ last.op = "from_entropy"
  /\ last.err = ""
  /\ IsPriv(node)
  /\ node.depth = 0

\* C19: ckd of a private parent of scalar k and chaincode c hashes, under c,
\* 0x00 ++ be(k) ++ be(i) exactly when i >= 0x80000000 and the compressed
\* point of G * k ++ be(i) otherwise, and returns the child scalar
\* (I[0:32] + k) mod N with the chaincode I[32:64].
C19_PrivateChild ==
  (last.op = "ckd" /\ IsPriv(last.self) /\ last.err = "")
    => LET k == last.self.keydata
           c == last.self.chaincode
           data == IF last.i >= HARDENED
                   THEN <<0>> \o IntToBytes(k, KeyLen)
                   ELSE PointBytes(PointMul(G, k)).val
           I == HmacSha512(c, data \o IntToBytes(last.i, IdxLen))
       IN /\ last.out.keydata = (BytesToInt(SubSeq(I, 1, KeyLen)) + k) % N
          /\ last.out.chaincode = SubSeq(I, KeyLen + 1, KeyLen + CcLen)

C19_Witness ==
  /\ last.op = "ckd"
  /\ IsPriv(last.self)
  /\ last.i = HARDENED
  /\ last.err = ""
  /\ last.self.keydata \in 1..(N - 1)
  /\ BytesToInt(IL(XPrivKey_I(last.self, last.i).val)) + last.self.keydata >= N

\* C20: the serialization of every node returned is 78 bytes: the version
\* of its class, the depth byte, the parent fingerprint, the index big
\* endian, the chaincode, and 0x00 ++ be(scalar) or the compressed point.
C20_Layout ==
  node # NoNode
    => LET b == PubBIP32Node_bytes(node) IN
       /\ b.err = ""
       /\ Len(b.val) = PayloadLen
       /\ SubSeq(b.val, 1, VLen) = (IF IsPriv(node) THEN PrivVbytes ELSE PubVbytes)
       /\ b.val[VLen + 1] = node.depth
       /\ SubSeq(b.val, VLen + 2, VLen + 1 + FpLen) = node.parent_fingerprint
       /\ BytesToInt(SubSeq(b.val, VLen + 2 + FpLen, VLen + 1 + FpLen + IdxLen)) = node.index
       /\ SubSeq(b.val, VLen + 2 + FpLen + IdxLen, VLen + 1 + FpLen + IdxLen + CcLen)
            = node.chaincode
       /\ SubSeq(b.val, VLen + 2 + FpLen + IdxLen + CcLen, PayloadLen)
            = (IF IsPriv(node) THEN <<0>> \o IntToBytes(node.keydata, KeyLen)
               ELSE PointBytes(node.keydata).val)

(***************************************************************************)
(* Public chains and canonical strings.                                    *)
(***************************************************************************)
\* C24: a node returned by ckd or by the projection of a public node is
\* public, and a child of a public node has an index below 0x80000000; so
\* no chain of derivations from a public node reaches a private node.
C24_PublicStaysPublic ==
  (last.op \in {"ckd", "to_public"} /\ IsPub(last.self) /\ last.err = "")
    => /\ IsPub(last.out)
       /\ IsPub(node)
       /\ last.op = "ckd" => last.out.index < HARDENED

C24_Witness ==
  /\ last.op = "ckd"
  /\ IsPub(last.self)
  /\ last.self.depth = 1
  /\ last.self.index < HARDENED
  /\ last.err = ""
  /\ last.out.index = HARDENED - 1

\* C30: the string of a node that node_from_str returned (xprv of a private
\* node, xpub of a public one) is the string that was parsed.
C30_CanonicalDecoding ==
  (last.op = "node_from_str" /\ last.err = "")
    => (IF IsPriv(last.out) THEN xprv(last.out) ELSE xpub(last.out)) = Ok(last.s)

(***************************************************************************)
(* Codecs.                                                                 *)
(***************************************************************************)
\* C26: base58 and base58check are lossless: decoding what b58enc made of a
\* byte string gives the byte string back, with and without the checksum.
C26_Base58Lossless ==
  io.op = "b58dec" => (io.err = "" /\ io.out = io.in)

C26_Witness ==
  /\ io.op = "b58dec"
  /\ io.check
  /\ Len(io.in) = 2
  /\ io.in[1] = 0
  /\ io.in[2] = 0
  /\ io.out = io.in

\* C27: cashdec gives back the payload cashenc encoded, whatever its length
\* and the prefix, and the string cashenc makes passes verify_checksum.
C27_CashaddrLossless ==
  /\ io.op = "cashenc"
       => /\ SplitOn(io.mid, ":", <<>>)[1] = io.p
          /\ verify_checksum(io.p, b32decode(SplitOn(io.mid, ":", <<>>)[2]))
  /\ io.op = "cashdec" => (io.err = "" /\ io.out = io.in)

C27_Witness ==
  /\ io.op = "cashdec"
  /\ Len(io.in) = 3
  /\ io.in[1] = 255
  /\ io.p = DefaultPrefix
  /\ io.out = io.in

\* C28: convert_word of the address convert_word returned gives the first
\* address back, from a legacy address (version 0x00 or 0x05) and from a
\* cashaddr (version 0x00 or 0x08), with the same hash in both forms.
C28_ConvertWordRoundTrip ==
  io.op = "convert_back"
    => /\ io.err = ""
       /\ is_cashaddr(io.in) => io.out.cashaddr = io.in
       /\ ~is_cashaddr(io.in) => io.out.legaddr = io.in
       /\ LET leg == b58dec(io.out.legaddr, TRUE).val
              csh == cashdec(io.out.cashaddr).val
          IN /\ SliceFrom(leg, 1) = SliceFrom(csh, 1)
             /\ <<leg[1], csh[1]>> \in {<<0, 0>>, <<5, 8>>}

C28_Witness ==
  /\ io.op = "convert_back"
  /\ ~is_cashaddr(io.in)
  /\ b58dec(io.in, TRUE).val[1] = 5
  /\ io.out.legaddr = io.in
  /\ io.out.intype = "CASHAD"

(***************************************************************************)
(* Mnemonics.                                                              *)
(***************************************************************************)
\* the bits of the word indices of w, the highest bit of each word first
WordsBits(w) ==
  [j \in 1..(Len(w) * WordBits) |->
     Bit(WordIndex(w[((j - 1) \div WordBits) + 1]) - 1, WordBits - 1 - ((j - 1) % WordBits))]

\* the bits of the bytes b, the highest bit of each byte first
BytesBits(b) == [j \in 1..(8 * Len(b)) |-> Bit(b[((j - 1) \div 8) + 1], 7 - ((j - 1) % 8))]

\* the bytes written by the first 8 * n of the bits
BitsBytes(bits, n) ==
  [k \in 1..n |->
     LET o == 8 * (k - 1) IN
     128 * bits[o + 1] + 64 * bits[o + 2] + 32 * bits[o + 3] + 16 * bits[o + 4]
       + 8 * bits[o + 5] + 4 * bits[o + 6] + 2 * bits[o + 7] + bits[o + 8]]

\* BIP39 validity of a word sequence: its length, its words, its checksum
ValidMnemonic(w) ==
  /\ Len(w) \in {12, 15, 18, 21, 24}
  /\ \A j \in 1..Len(w) : \E k \in 1..Len(WORDLIST) : WORDLIST[k] = w[j]
  /\ LET bits == WordsBits(w)
         cs == Len(bits) \div (CsRatio + 1)
         ent == BitsBytes(bits, (Len(bits) - cs) \div 8)
         sum == BytesBits(sha256(ent))
     IN /\ Len(bits) = cs * (CsRatio + 1)
        /\ \A j \in 1..cs : bits[Len(bits) - cs + j] = sum[j]

\* C29: every Mnemonic that construction returns has 12, 15, 18, 21 or 24
\* words of the wordlist and checksum bits equal to the leading bits of the
\* SHA-256 of its entropy; a word sequence (or string) that is not such a
\* mnemonic raises ValueError and yields no instance; entropy bytes of a
\* valid length always give an instance.
C29_MnemonicValid ==
  io.op = "Mnemonic" =>
    LET kind == io.p[1]
        words == IF kind = "str" THEN SelectSeq(io.in, LAMBDA x : x # " ") ELSE io.in
        entropy == IF kind = "int" THEN io.mid ELSE io.in
    IN /\ io.err = "" => ValidMnemonic(io.out)
       /\ kind \in {"str", "iter"} =>
            /\ ValidMnemonic(words) => io.err = "" /\ io.out = words
            /\ ~ValidMnemonic(words) =>
                 /\ io.err \in {"ValueError: Incorrect Mnemonic length",
                                "ValueError: Bad word(s)",
                                "ValueError: Bad mnemonic checksum"}
                 /\ io.out = <<>>
       /\ (kind \in {"bytes", "int"} /\ Len(entropy) \in EntMin..EntMax /\ Len(entropy) % EntStep = 0) =>
            /\ io.err = ""
            /\ Len(io.out) = (Len(entropy) * (CsRatio + 1) * 8) \div (CsRatio * WordBits)
            /\ BitsBytes(WordsBits(io.out), Len(entropy)) = entropy

\* a sequence of 12 words of the wordlist is refused for its checksum
C29_Witness ==
  /\ io.op = "Mnemonic"
  /\ io.p = <<"iter">>
  /\ Len(io.in) = 12
  /\ \A j \in 1..Len(io.in) : \E k \in 1..Len(WORDLIST) : WORDLIST[k] = io.in[j]
  /\ io.err = "ValueError: Bad mnemonic checksum"

(***************************************************************************)
(* The pubkey caches, determinism and immutability.                        *)
(***************************************************************************)
\* C21: node.ckd(i) is a function of the node and of i alone: whatever
\* calls came before, whatever the pubkey cache holds and whatever
\* os.urandom would return, the outcome is the same error or the same
\* child (key, chaincode, depth, parent fingerprint, index).
C21_CkdDeterministic ==
  res.op = "ckd" =>
    LET o == PubBIP32Node_ckd(Heap[res.self].node, res.i) IN
    /\ res.err = o.err
    /\ res.err = "" => res.out = o.val

\* a child derived from a private node whose point was computed twice, so
\* after earlier reads and an eviction
C21_Witness ==
  /\ res.op = "ckd"
  /\ res.err = ""
  /\ res.self \in PackagePrivate
  /\ mults[res.self] = 2
  /\ Len(cache) = CacheSize

C23_ComputedOnce ==
  /\ \A r \in 1..Len(Heap) : mults[r] <= 1
  /\ \A t \in Threads :
       (thr[t].pc = "idle" /\ thr[t].ref # 0) =>
          thr[t].got = PointMul(G, Heap[thr[t].ref].node.keydata)

====
